---- MODULE Spec2Model ----
(***************************************************************************)
(* A model of the pokedex scraper (src/pokedex_scraper.py) and of the      *)
(* sqlite loader (src/pokedex_db_converter.py).                            *)
(*                                                                         *)
(* Texts are sequences of one-character strings, so that strip() and int() *)
(* are computed, not assumed.  A URL is the sequence of its path segments  *)
(* after the host.  A python dict is a function; a python list a sequence. *)
(***************************************************************************)
EXTENDS Integers, Sequences, FiniteSets, TLC

VARIABLES
    catalog,            \* the web site: url -> page markup (never changes)
    url,                \* main(): the url of the next page to scrape
    fetched,            \* the urls requested so far, in order
    pkmn_collection,    \* mongodb pokedex.pokemon, in insertion order
    ability_collection, \* mongodb pokedex.abilities, in insertion order
    cpc,                \* main(): "loop", "done" (break) or "failed" (exception)
    cerr,               \* the exception that ended main(), or "none"
    lpc,                \* fill_sqlite_db(): the call it is about to make
    li,                 \* fill_sqlite_db(): index of the current document
    t_pokemon,          \* sqlite tables, as sets of rows
    t_formes,
    t_form_descriptions,
    t_abilities,
    t_form_abilities,
    t_evolutions,
    lerr,               \* [call, error]: the exception that ended fill_sqlite_db()
    committed           \* con.commit() was reached

crawl_vars == <<url, fetched, pkmn_collection, ability_collection, cpc, cerr>>
tables == <<t_pokemon, t_formes, t_form_descriptions, t_abilities,
            t_form_abilities, t_evolutions>>
load_vars == <<lpc, li, tables, lerr, committed>>
vars == <<catalog, crawl_vars, load_vars>>

(***************************************************************************)
(* Bounds of the model.                                                    *)
(***************************************************************************)
MaxNames == 2       \* names in one position of a lineage
MaxForms == 2       \* form labels on a page
MaxDescriptions == 2 \* <p> elements in one version-descriptions region
MaxEntities == 2    \* documents in a store handed to the loader

(***************************************************************************)
(* Sequences and texts.                                                    *)
(***************************************************************************)
Min(a, b) == IF a < b THEN a ELSE b

Range(s) == {s[i] : i \in 1..Len(s)}

SeqsUpTo(S, n) == UNION {[1..k -> S] : k \in 0..n}

\* str.strip(chars): leading and trailing characters of `chars` removed.
RECURSIVE LStrip(_, _)
LStrip(s, chars) ==
    IF s # <<>> /\ Head(s) \in chars THEN LStrip(Tail(s), chars) ELSE s

RECURSIVE RStrip(_, _)
RStrip(s, chars) ==
    IF s # <<>> /\ s[Len(s)] \in chars
    THEN RStrip(SubSeq(s, 1, Len(s) - 1), chars) ELSE s

Strip(s, chars) == RStrip(LStrip(s, chars), chars)

Blank == {" ", "\n"}

Digits == {"0", "1", "2", "3", "4", "5", "6", "7", "8", "9"}

DigitValue(c) ==
    CASE c = "0" -> 0 [] c = "1" -> 1 [] c = "2" -> 2 [] c = "3" -> 3
      [] c = "4" -> 4 [] c = "5" -> 5 [] c = "6" -> 6 [] c = "7" -> 7
      [] c = "8" -> 8 [] c = "9" -> 9

\* The white space int() strips from both ends of its argument, among the
\* characters U+0000..U+00FF that the texts of the model are made of: space,
\* tab, line feed, carriage return, form feed, vertical tab (U+000B), next
\* line (U+0085) and no-break space (U+00A0, what &nbsp; gives).
Whitespace == {" ", "\t", "\n", "\r", "\f", "", "", " "}

\* sys.int_info.default_max_str_digits: int() raises ValueError on a text
\* of more digits, leading zeros counted, sign and underscores not.
MaxStrDigits == 4300

\* What int() reads after the white space is stripped: the sign, if any,
\* and the text that follows it.
IntSign(s) ==
    LET t == Strip(s, Whitespace)
    IN  IF t # <<>> /\ Head(t) = "-" THEN -1 ELSE 1

IntBody(s) ==
    LET t == Strip(s, Whitespace)
    IN  IF t # <<>> /\ Head(t) \in {"+", "-"} THEN Tail(t) ELSE t

\* The value of a text of decimal digits.
RECURSIVE DecimalValue(_)
DecimalValue(s) ==
    IF s = <<>> THEN 0
    ELSE 10 * DecimalValue(SubSeq(s, 1, Len(s) - 1)) + DigitValue(s[Len(s)])

NotUnderscore(c) == c # "_"

\* int(text), base 10: white space around, an optional sign, then digits
\* with single underscores allowed between them.
ParseInt(s) == IntSign(s) * DecimalValue(SelectSeq(IntBody(s), NotUnderscore))

\* int(text) raises ValueError on every other text.
IsNumber(s) ==
    LET b == IntBody(s)
    IN  /\ b # <<>>
        /\ b[1] \in Digits
        /\ b[Len(b)] \in Digits
        /\ \A i \in 1..Len(b) : b[i] \in Digits \cup {"_"}
        /\ \A i \in 1..(Len(b) - 1) : ~(b[i] = "_" /\ b[i + 1] = "_")
        /\ Len(SelectSeq(b, NotUnderscore)) <= MaxStrDigits

(***************************************************************************)
(* PokedexScraper: one page.                                               *)
(* A page is a record of the regions the scraper queries:                  *)
(*   title      the text of the name in pokedex-pokemon-pagination-title   *)
(*   number     the text of the number beside it                           *)
(*   formes     [present, labels]: the element with id "formes"            *)
(*   images     the src of each <img> of profile-images                    *)
(*   descriptions  the <p> texts of each version-descriptions region       *)
(*   types      the <li> texts of each dtm-type region                     *)
(*   info       each pokemon-ability-info region                           *)
(*   evolution  [present, spots]: the evolution-profile element            *)
(*   details    [h3, p] of each pokemon-ability-info-detail element        *)
(*   next       the href of <a class="next">                               *)
(***************************************************************************)
Host == "https://www.pokemon.com"

PokedexPrefix == <<Host, "us", "pokedex">>

\* pokemon_url.startswith("https://www.pokemon.com/us/pokedex/")
ValidUrl(u) == Len(u) > 3 /\ SubSeq(u, 1, 3) = PokedexPrefix

scrape_name(page) == Strip(page.title, Blank)

NumberText(page) == Strip(page.number, Blank \cup {"#"})

scrape_number(page) == ParseInt(NumberText(page))

scrape_formes(page) ==
    IF page.formes.present
    THEN [i \in 1..Len(page.formes.labels) |-> Strip(page.formes.labels[i], Blank)]
    ELSE <<scrape_name(page)>>

\* d = {}; for v, k in zip(values, keys): d[k] = v
\* zip stops at the shorter list, and a later pair replaces an earlier one
\* with the same key.
ZipIndex(values, keys, k) ==
    CHOOSE i \in 1..Min(Len(values), Len(keys)) :
        /\ keys[i] = k
        /\ \A j \in 1..Min(Len(values), Len(keys)) : keys[j] = k => j <= i

ZipDict(values, keys) ==
    [k \in {keys[i] : i \in 1..Min(Len(values), Len(keys))} |->
        values[ZipIndex(values, keys, k)]]

scrape_images(page, formes) == ZipDict(page.images, formes)

scrape_descriptions(page, formes) ==
    ZipDict([i \in 1..Len(page.descriptions) |->
                [j \in 1..Len(page.descriptions[i]) |->
                    Strip(page.descriptions[i][j], Blank)]],
            formes)

scrape_types(page, formes) ==
    ZipDict([i \in 1..Len(page.types) |->
                [j \in 1..Len(page.types[i]) |-> Strip(page.types[i][j], Blank)]],
            formes)

\* The strings "Male" and "Female", and the "female" that find() looks for.
Male == <<"M", "a", "l", "e">>

Female == <<"F", "e", "m", "a", "l", "e">>

FemaleMark == <<"f", "e", "m", "a", "l", "e">>

\* text.find(sub) != -1
Contains(text, sub) ==
    \E i \in 0..(Len(text) - Len(sub)) : SubSeq(text, i + 1, i + Len(sub)) = sub

\* An icon is given by its second class: find("female") != -1.
IconGender(icon) == IF Contains(icon, FemaleMark) THEN Female ELSE Male

\* The gender list of one region: from the icons if there are any, else the
\* stripped text of the cell.
InfoGender(region) ==
    IF region.icons # <<>>
    THEN [i \in 1..Len(region.icons) |-> IconGender(region.icons[i])]
    ELSE <<Strip(region.gender_text, Blank)>>

\* The dictionary of one region.  titles[0..3] are height, weight, gender
\* and category; values[4:] are the abilities, kept when there is a fifth
\* title and a fifth value.
InfoDict(region) ==
    LET base == [height |-> region.height, weight |-> region.weight,
                 gender |-> InfoGender(region), category |-> region.category]
    IN  IF region.titles > 4 /\ 4 + Len(region.abilities) > 4
        THEN base @@ [abilities |->
                 [i \in 1..Len(region.abilities) |->
                     Strip(region.abilities[i], Blank)]]
        ELSE base

\* A region with fewer than four titles or values raises IndexError.
InfoWellFormed(region) == region.titles >= 4

scrape_misc_info(page, formes) ==
    ZipDict([i \in 1..Len(page.info) |-> InfoDict(page.info[i])], formes)

scrape_evolutions(page) ==
    IF page.evolution.present
    THEN [i \in 1..Len(page.evolution.spots) |->
            [spot |-> page.evolution.spots[i].class,
             names |-> [j \in 1..Len(page.evolution.spots[i].h3) |->
                          Strip(page.evolution.spots[i].h3[j], Blank)]]]
    ELSE <<>>

\* The regions zip() reaches: those at positions up to the number of forms.
InfoReached(page, formes) ==
    {page.info[i] : i \in 1..Min(Len(page.info), Len(formes))}

\* __scrape_pokemon raises when a form has no entry in one of the four
\* dictionaries (KeyError), when the number is no number (ValueError) or
\* when a region zip() reaches lacks a title (IndexError).
ScrapeError(page) ==
    LET formes == scrape_formes(page) IN
    IF ~IsNumber(NumberText(page)) THEN "ValueError"
    ELSE IF \E r \in InfoReached(page, formes) : ~InfoWellFormed(r)
         THEN "IndexError"
    ELSE IF \E i \in 1..Len(formes) :
               \/ formes[i] \notin DOMAIN scrape_images(page, formes)
               \/ formes[i] \notin DOMAIN scrape_descriptions(page, formes)
               \/ formes[i] \notin DOMAIN scrape_types(page, formes)
               \/ formes[i] \notin DOMAIN scrape_misc_info(page, formes)
         THEN "KeyError"
    ELSE "none"

FormDict(page, formes, form) ==
    [form |-> form,
     image |-> scrape_images(page, formes)[form],
     descriptions |-> scrape_descriptions(page, formes)[form],
     types |-> scrape_types(page, formes)[form]]
    @@ scrape_misc_info(page, formes)[form]

scrape_pokemon(u, page) ==
    LET formes == scrape_formes(page) IN
    [url |-> u,
     name |-> scrape_name(page),
     number |-> scrape_number(page),
     evolutions |-> scrape_evolutions(page),
     formes |-> [i \in 1..Len(formes) |-> FormDict(page, formes, formes[i])]]

\* The abilities of a page: one {ability, description} per name, with the
\* description of the name's first element on the page, in page order.
RECURSIVE scrape_abilities_from(_, _)
scrape_abilities_from(details, acc) ==
    IF details = <<>> THEN acc
    ELSE LET name == Strip(Head(details).h3, Blank) IN
         scrape_abilities_from(Tail(details),
            IF \E i \in 1..Len(acc) : acc[i].ability = name
            THEN acc
            ELSE Append(acc, [ability |-> name,
                              description |-> Strip(Head(details).p, Blank)]))

scrape_abilities(page) == scrape_abilities_from(page.details, <<>>)

scrape_next_pokemon_url(page) == <<Host>> \o page.next

(***************************************************************************)
(* main(): the crawl.                                                      *)
(***************************************************************************)
first_pokemon_url == <<Host, "us", "pokedex", "bulbasaur">>

\* DuplicateNumber for a collection without the unique index.
DuplicateNumberUnindexed(coll, pokemon) == FALSE

\* pkmn_collection has a unique index on "number".
DuplicateNumber(coll, pokemon) ==
    \E i \in 1..Len(coll) : coll[i].number = pokemon.number

\* update_one({"ability": name}, {"$set": ability}, upsert=True)
update_one(coll, ability) ==
    IF \E i \in 1..Len(coll) : coll[i].ability = ability.ability
    THEN [i \in 1..Len(coll) |->
            IF coll[i].ability = ability.ability THEN ability ELSE coll[i]]
    ELSE Append(coll, ability)

RECURSIVE UpsertAll(_, _)
UpsertAll(coll, abilities) ==
    IF abilities = <<>> THEN coll
    ELSE UpsertAll(update_one(coll, Head(abilities)), Tail(abilities))

\* The exit test against the page just scraped instead of the first.
LoopEndsAtItself(next_url) == next_url = url

\* The loop's exit test.
LoopEnds(next_url) == next_url = first_pokemon_url

CrawlFails(e) ==
    /\ cpc' = "failed"
    /\ cerr' = e
    /\ UNCHANGED <<url, pkmn_collection, ability_collection>>

\* One iteration of the while loop: scrape the page at url, store the
\* pokemon and its abilities, then stop or move to the next page.
MainLoop ==
    /\ cpc = "loop"
    /\ UNCHANGED <<catalog, load_vars>>
    /\ IF ~ValidUrl(url)
       THEN CrawlFails("ValueError") /\ UNCHANGED fetched
       ELSE /\ fetched' = Append(fetched, url)
            /\ IF url \notin DOMAIN catalog
               THEN CrawlFails("AttributeError")
               ELSE LET page == catalog[url]
                        pokemon == scrape_pokemon(url, page)
                    IN  IF ScrapeError(page) # "none"
                        THEN CrawlFails(ScrapeError(page))
                        ELSE IF DuplicateNumber(pkmn_collection, pokemon)
                        THEN CrawlFails("DuplicateKeyError")
                        ELSE /\ pkmn_collection' = Append(pkmn_collection, pokemon)
                             /\ ability_collection' =
                                    UpsertAll(ability_collection, scrape_abilities(page))
                             /\ cerr' = "none"
                             /\ IF LoopEnds(scrape_next_pokemon_url(page))
                                THEN cpc' = "done" /\ url' = url
                                ELSE cpc' = "loop"
                                     /\ url' = scrape_next_pokemon_url(page)

\* requests.get raises: the crawl halts.
TransportError ==
    /\ cpc = "loop"
    /\ ValidUrl(url)
    /\ CrawlFails("ConnectionError")
    /\ UNCHANGED <<catalog, fetched, load_vars>>

NextCrawl == MainLoop \/ TransportError

(***************************************************************************)
(* The sqlite database.                                                    *)
(***************************************************************************)
\* The connection never issues PRAGMA foreign_keys = ON, and sqlite does
\* not enforce FOREIGN KEY clauses without it.
ForeignKeysEnforced == FALSE

PyNone == <<"None">>

KeyOf(row, fields) == [f \in fields |-> row[f]]

PrimaryKeyTaken(table, row, fields) ==
    \E r \in table : KeyOf(r, fields) = KeyOf(row, fields)

\* A run of INSERT statements.  A step is [pyerr, row, fk]: a python
\* exception raised before the statement, or a row with whether its foreign
\* keys are met.  The run stops at the first exception or refused row; the
\* rows inserted before it stay in the open transaction.
RECURSIVE RunInserts(_, _, _)
RunInserts(table, steps, fields) ==
    IF steps = <<>> THEN [table |-> table, err |-> "none"]
    ELSE IF Head(steps).pyerr # "none"
         THEN [table |-> table, err |-> Head(steps).pyerr]
    ELSE IF PrimaryKeyTaken(table, Head(steps).row, fields)
         THEN [table |-> table, err |-> "IntegrityError"]
    ELSE IF ForeignKeysEnforced /\ ~Head(steps).fk
         THEN [table |-> table, err |-> "IntegrityError"]
    ELSE RunInserts(table \cup {Head(steps).row}, Tail(steps), fields)

Insert(row, fk) == [pyerr |-> "none", row |-> row, fk |-> fk]

Raise(e) == [pyerr |-> e, row |-> <<>>, fk |-> TRUE]

RECURSIVE Flatten(_)
Flatten(ss) == IF ss = <<>> THEN <<>> ELSE Head(ss) \o Flatten(Tail(ss))

(***************************************************************************)
(* The insert functions of the loader, as the statements each one runs.    *)
(***************************************************************************)
PokemonSteps(pkmn) ==
    <<Insert([name |-> pkmn.name, number |-> pkmn.number], TRUE)>>

FormesRow(pkmn, form) ==
    [pokemon |-> pkmn.name, form |-> form.form,
     height |-> form.height, weight |-> form.weight,
     category |-> form.category,
     type_1 |-> form.types[1],
     type_2 |-> IF Len(form.types) < 2 THEN PyNone ELSE form.types[2],
     male |-> IF Male \in Range(form.gender) THEN 1 ELSE 0,
     female |-> IF Female \in Range(form.gender) THEN 1 ELSE 0]

FormesSteps(pkmn, pokemon_table) ==
    [i \in 1..Len(pkmn.formes) |->
        IF pkmn.formes[i].types = <<>> THEN Raise("IndexError")
        ELSE Insert(FormesRow(pkmn, pkmn.formes[i]),
                    \E r \in pokemon_table : r.name = pkmn.name)]

DescriptionRow(pkmn, form, d) ==
    [pokemon |-> pkmn.name, form |-> form.form, description |-> d]

\* The values of one form: descriptions[0], and descriptions[1] when it
\* differs.  Both are read, so a shorter list raises IndexError.
DescriptionValues(pkmn, form) ==
    IF Len(form.descriptions) < 2 THEN <<Raise("IndexError")>>
    ELSE LET desc1 == form.descriptions[1]
             desc2 == form.descriptions[2]
             fk == \E r \in t_formes :
                      r.pokemon = pkmn.name /\ r.form = form.form
         IN  IF desc1 # desc2
             THEN <<Insert(DescriptionRow(pkmn, form, desc1), fk),
                    Insert(DescriptionRow(pkmn, form, desc2), fk)>>
             ELSE <<Insert(DescriptionRow(pkmn, form, desc1), fk)>>

DescriptionSteps(pkmn) ==
    Flatten([i \in 1..Len(pkmn.formes) |->
                DescriptionValues(pkmn, pkmn.formes[i])])

FormAbilityValues(pkmn, form) ==
    IF "abilities" \in DOMAIN form
    THEN [j \in 1..Len(form.abilities) |->
            Insert([pokemon |-> pkmn.name, form |-> form.form,
                    ability |-> form.abilities[j]],
                   /\ \E r \in t_formes :
                         r.pokemon = pkmn.name /\ r.form = form.form
                   /\ \E r \in t_abilities : r.ability = form.abilities[j])]
    ELSE <<>>

FormAbilitySteps(pkmn) ==
    Flatten([i \in 1..Len(pkmn.formes) |->
                FormAbilityValues(pkmn, pkmn.formes[i])])

\* evos = {}; for dic in evos_list: evos.update(dic)
EvosKeys(evos_list) == {evos_list[i].spot : i \in 1..Len(evos_list)}

CombineEvos(evos_list) ==
    [k \in EvosKeys(evos_list) |->
        evos_list[CHOOSE i \in 1..Len(evos_list) :
                     /\ evos_list[i].spot = k
                     /\ \A j \in 1..Len(evos_list) :
                            evos_list[j].spot = k => j <= i].names]

\* for b in outer: for a in inner: values.append((a, b))
Pairs(inner, outer) ==
    [k \in 1..(Len(outer) * Len(inner)) |->
        [pokemon |-> inner[((k - 1) % Len(inner)) + 1],
         evolves_to |-> outer[((k - 1) \div Len(inner)) + 1]]]

\* The exception the construction of values raises, if any: the assertion
\* on the keys, or the KeyError of a position that is read and absent.
EvolutionError(evos) ==
    IF \E k \in DOMAIN evos : k \notin {"first", "middle", "last"}
    THEN "AssertionError"
    ELSE IF "middle" \in DOMAIN evos
    THEN IF evos["middle"] # <<>> /\ "first" \notin DOMAIN evos THEN "KeyError"
         ELSE IF "last" \notin DOMAIN evos THEN "KeyError"
         ELSE "none"
    ELSE IF "last" \in DOMAIN evos
    THEN IF evos["last"] # <<>> /\ "first" \notin DOMAIN evos THEN "KeyError"
         ELSE "none"
    ELSE "none"

\* EvolutionValues pairing first with last also when there is a middle.
EvolutionValuesDirect(evos) ==
    IF "last" \in DOMAIN evos
    THEN (IF "middle" \in DOMAIN evos
          THEN (IF evos["middle"] = <<>> THEN <<>>
                ELSE Pairs(evos["first"], evos["middle"]))
               \o Pairs(evos["middle"], evos["last"])
          ELSE <<>>)
         \o (IF evos["last"] = <<>> \/ "first" \notin DOMAIN evos THEN <<>>
             ELSE Pairs(evos["first"], evos["last"]))
    ELSE <<>>

\* values, for a taxonomy that raises nothing.
EvolutionValues(evos) ==
    IF "middle" \in DOMAIN evos
    THEN (IF evos["middle"] = <<>> THEN <<>>
          ELSE Pairs(evos["first"], evos["middle"]))
         \o Pairs(evos["middle"], evos["last"])
    ELSE IF "last" \in DOMAIN evos
    THEN (IF evos["last"] = <<>> THEN <<>>
          ELSE Pairs(evos["first"], evos["last"]))
    ELSE <<>>

\* SELECT * FROM evolutions WHERE pokemon=? OR evolves_to=?
EvolutionLineKnown(table, name) ==
    \E r \in table : r.pokemon = name \/ r.evolves_to = name

EvolutionSteps(pkmn, evolutions_table, pokemon_table) ==
    IF EvolutionLineKnown(evolutions_table, pkmn.name) THEN <<>>
    ELSE LET evos == CombineEvos(pkmn.evolutions) IN
         IF EvolutionError(evos) # "none" THEN <<Raise(EvolutionError(evos))>>
         ELSE LET values == EvolutionValues(evos) IN
              [k \in 1..Len(values) |->
                  Insert(values[k],
                         /\ \E r \in pokemon_table : r.name = values[k].pokemon
                         /\ \E r \in pokemon_table :
                                r.name = values[k].evolves_to)]

(***************************************************************************)
(* fill_sqlite_db(): the load.                                             *)
(***************************************************************************)
\* The type of the parameter insert_abilities_table binds to its SELECT:
\* the document itself, not its name.
AbilityParameterType == "dict"

SqliteTypes == {"NoneType", "int", "float", "str", "bytes"}

\* The call that follows the ability pass, and the one that follows an
\* entity: the next document, or the commit.
EntityPass(i) ==
    IF i <= Len(pkmn_collection) THEN <<"pokemon", i>> ELSE <<"commit", 0>>

AbilityPass(i) ==
    IF i <= Len(ability_collection) THEN <<"abilities", i>> ELSE EntityPass(1)

NoError == [call |-> "none", error |-> "none"]

Goto(where) == lpc' = where[1] /\ li' = where[2] /\ lerr' = NoError

\* An exception leaves fill_sqlite_db: nothing more is written, and the
\* commit is never reached.
LoadFails(e) ==
    lpc' = "failed" /\ li' = li /\ lerr' = [call |-> lpc, error |-> e]

\* Lines 147-153: the collections are opened and the connection made, once
\* the crawl has ended.
Connect ==
    /\ lpc = "idle"
    /\ cpc # "loop"
    /\ Goto(AbilityPass(1))
    /\ UNCHANGED <<catalog, crawl_vars, tables, committed>>

insert_abilities_table ==
    /\ lpc = "abilities"
    /\ LET ability == ability_collection[li] IN
       IF AbilityParameterType \notin SqliteTypes
       THEN LoadFails("ProgrammingError") /\ UNCHANGED t_abilities
       ELSE LET res == RunInserts(t_abilities,
                         IF \E r \in t_abilities : r.ability = ability
                         THEN <<>>
                         ELSE <<Insert([ability |-> ability.ability,
                                        info |-> ability.description], TRUE)>>,
                         {"ability"})
            IN  /\ t_abilities' = res.table
                /\ IF res.err = "none" THEN Goto(AbilityPass(li + 1))
                   ELSE LoadFails(res.err)
    /\ UNCHANGED <<catalog, crawl_vars, committed, t_pokemon, t_formes,
                   t_form_descriptions, t_form_abilities, t_evolutions>>

insert_pokemon_table ==
    /\ lpc = "pokemon"
    /\ LET res == RunInserts(t_pokemon, PokemonSteps(pkmn_collection[li]),
                             {"name"})
       IN  /\ t_pokemon' = res.table
           /\ IF res.err = "none" THEN Goto(<<"formes", li>>)
              ELSE LoadFails(res.err)
    /\ UNCHANGED <<catalog, crawl_vars, committed, t_formes, t_abilities,
                   t_form_descriptions, t_form_abilities, t_evolutions>>

insert_formes_table ==
    /\ lpc = "formes"
    /\ LET res == RunInserts(t_formes,
                             FormesSteps(pkmn_collection[li], t_pokemon),
                             {"pokemon", "form"})
       IN  /\ t_formes' = res.table
           /\ IF res.err = "none" THEN Goto(<<"form_descriptions", li>>)
              ELSE LoadFails(res.err)
    /\ UNCHANGED <<catalog, crawl_vars, committed, t_pokemon, t_abilities,
                   t_form_descriptions, t_form_abilities, t_evolutions>>

insert_form_descriptions_table ==
    /\ lpc = "form_descriptions"
    /\ LET res == RunInserts(t_form_descriptions,
                             DescriptionSteps(pkmn_collection[li]),
                             {"pokemon", "form", "description"})
       IN  /\ t_form_descriptions' = res.table
           /\ IF res.err = "none" THEN Goto(<<"form_abilities", li>>)
              ELSE LoadFails(res.err)
    /\ UNCHANGED <<catalog, crawl_vars, committed, t_pokemon, t_formes,
                   t_abilities, t_form_abilities, t_evolutions>>

insert_form_abilities_table ==
    /\ lpc = "form_abilities"
    /\ LET res == RunInserts(t_form_abilities,
                             FormAbilitySteps(pkmn_collection[li]),
                             {"pokemon", "form", "ability"})
       IN  /\ t_form_abilities' = res.table
           /\ IF res.err = "none" THEN Goto(<<"evolutions", li>>)
              ELSE LoadFails(res.err)
    /\ UNCHANGED <<catalog, crawl_vars, committed, t_pokemon, t_formes,
                   t_abilities, t_form_descriptions, t_evolutions>>

insert_evolutions_table ==
    /\ lpc = "evolutions"
    /\ LET res == RunInserts(t_evolutions,
                             EvolutionSteps(pkmn_collection[li], t_evolutions,
                                            t_pokemon),
                             {"pokemon", "evolves_to"})
       IN  /\ t_evolutions' = res.table
           /\ IF res.err = "none" THEN Goto(EntityPass(li + 1))
              ELSE LoadFails(res.err)
    /\ UNCHANGED <<catalog, crawl_vars, committed, t_pokemon, t_formes,
                   t_abilities, t_form_descriptions, t_form_abilities>>

\* con.commit(); con.close()
Commit ==
    /\ lpc = "commit"
    /\ lpc' = "done"
    /\ committed' = TRUE
    /\ UNCHANGED <<catalog, crawl_vars, li, tables, lerr>>

NextLoad ==
    \/ Connect
    \/ insert_abilities_table
    \/ insert_pokemon_table
    \/ insert_formes_table
    \/ insert_form_descriptions_table
    \/ insert_form_abilities_table
    \/ insert_evolutions_table
    \/ Commit

(***************************************************************************)
(* Pages and stores the specifications start from.                         *)
(***************************************************************************)
Bulbasaur == <<"B">>
Ivysaur == <<"I">>
Venusaur == <<"V">>
Overgrow == <<"O">>

UrlOf(path) == <<Host, "us", "pokedex", path>>

Paths == {"bulbasaur", "ivysaur", "venusaur"}

\* The hrefs a "next" link may hold: the three pages, and one outside the
\* pokedex.
Hrefs == {<<"us", "pokedex", p>> : p \in Paths} \cup {<<"us", "about">>}

\* The second class of a male and of a female icon.
MaleIcon == <<"i", "c", "o", "n", "_", "m", "a", "l", "e">>

FemaleIcon == <<"i", "c", "o", "n", "_", "f", "e", "m", "a", "l", "e">>

InfoRegion(abilities) ==
    [height |-> <<"h">>, weight |-> <<"w">>, category |-> <<"c">>,
     icons |-> <<MaleIcon, FemaleIcon>>,
     gender_text |-> <<>>,
     abilities |-> abilities,
     titles |-> IF abilities = <<>> THEN 4 ELSE 5]

NoFormes == [present |-> FALSE, labels |-> <<>>]

NoEvolution == [present |-> FALSE, spots |-> <<>>]

\* A page of a pokemon with one form.
OneFormPage(title, number, abilities, evolution, details, next) ==
    [title |-> title, number |-> number, formes |-> NoFormes,
     images |-> <<"img1">>,
     descriptions |-> <<<< <<"x", "\n">>, <<" ", "y">> >>>>,
     types |-> <<<< <<"g">>, <<"p">> >>>>,
     info |-> <<InfoRegion(abilities)>>,
     evolution |-> evolution, details |-> details, next |-> next]

BulbasaurLine ==
    [present |-> TRUE,
     spots |-> <<[class |-> "first", h3 |-> <<<<"\n", "B", " ">>>>],
                 [class |-> "middle", h3 |-> <<<<"I">>>>],
                 [class |-> "last", h3 |-> <<<<"V">>>>]>>]

Titles == [p \in Paths |->
            CASE p = "bulbasaur" -> <<"\n", "B", " ">>
              [] p = "ivysaur" -> <<"I">>
              [] p = "venusaur" -> <<"V", " ">>]

\* The number beside each name; bulbasaur's ends in a no-break space, and
\* venusaur's may repeat bulbasaur's, or carry a sign and an underscore.
NumberTexts ==
    {[p \in Paths |->
        CASE p = "bulbasaur" -> <<"#", "0", "0", "1", " ">>
          [] p = "ivysaur" -> <<" ", "#", "2">>
          [] p = "venusaur" -> v] :
        v \in {<<"#", "3">>, <<"#", "1">>, <<"#", "-", "1", "_", "0">>}}

\* The ability details of a page: none, Overgrow with one of two texts.
DetailLists ==
    {<<>>,
     <<[h3 |-> <<"O", " ">>, p |-> <<"p">>]>>,
     <<[h3 |-> <<"O">>, p |-> <<"q">>], [h3 |-> <<" ", "O">>, p |-> <<"p">>]>>}

FormAbilityLists == {<<>>, <<Overgrow>>}

Catalogs ==
    {[u \in {UrlOf(p) : p \in Paths} |->
        OneFormPage(Titles[u[4]], nums[u[4]], abil, BulbasaurLine,
                    dets[u[4]], nexts[u[4]])] :
        nums \in NumberTexts,
        abil \in FormAbilityLists,
        dets \in [Paths -> DetailLists],
        nexts \in [Paths -> Hrefs]}

EmptyTables ==
    /\ t_pokemon = {}
    /\ t_formes = {}
    /\ t_form_descriptions = {}
    /\ t_abilities = {}
    /\ t_form_abilities = {}
    /\ t_evolutions = {}

LoadIdle ==
    /\ lpc = "idle"
    /\ li = 0
    /\ lerr = NoError
    /\ committed = FALSE
    /\ EmptyTables

\* The scraper is started on the first url with empty collections; the
\* loader starts on an empty database when the crawl has ended.
Init ==
    /\ catalog \in Catalogs
    /\ url = first_pokemon_url
    /\ fetched = <<>>
    /\ pkmn_collection = <<>>
    /\ ability_collection = <<>>
    /\ cpc = "loop"
    /\ cerr = "none"
    /\ LoadIdle

Next == NextCrawl \/ NextLoad

Spec == Init /\ [][Next]_vars

\* The catalogs of the crawl alone: every next link, every number text, the
\* same ability details on each page.
CrawlCatalogs ==
    {[u \in {UrlOf(p) : p \in Paths} |->
        OneFormPage(Titles[u[4]], nums[u[4]], <<Overgrow>>, BulbasaurLine,
                    dets, nexts[u[4]])] :
        nums \in NumberTexts,
        dets \in DetailLists,
        nexts \in [Paths -> Hrefs]}

InitCrawl ==
    /\ catalog \in CrawlCatalogs
    /\ url = first_pokemon_url
    /\ fetched = <<>>
    /\ pkmn_collection = <<>>
    /\ ability_collection = <<>>
    /\ cpc = "loop"
    /\ cerr = "none"
    /\ LoadIdle

\* The crawl alone when every fetch returns: the loop of main() goes on to
\* its next iteration for as long as it has not been left.
SpecCrawl == InitCrawl /\ [][MainLoop]_vars /\ WF_vars(MainLoop)

(***************************************************************************)
(* The loader alone, on a store it is handed.                              *)
(***************************************************************************)
\* A form as the scraper stores it; the key "abilities" is absent when the
\* list is empty.
Form(label, descriptions, abilities) ==
    LET base == [form |-> label, image |-> "img1",
                 descriptions |-> descriptions,
                 types |-> <<<<"g">>, <<"p">>>>,
                 height |-> <<"h">>, weight |-> <<"w">>,
                 category |-> <<"c">>, gender |-> <<Male, Female>>]
    IN  IF abilities = <<>> THEN base
        ELSE base @@ [abilities |-> abilities]

Document(name, number, formes, evolutions) ==
    [url |-> UrlOf("bulbasaur"), name |-> name, number |-> number,
     evolutions |-> evolutions, formes |-> formes]

Pokemon == {Bulbasaur, Ivysaur, Venusaur}

TwoDescriptions == << <<"x">>, <<"y">> >>

Spot(s, names) == [spot |-> s, names |-> names]

\* Lineages as the pages of one line repeat them.
Lineages ==
    {<<>>,
     <<Spot("first", <<Venusaur>>)>>,
     <<Spot("first", <<Bulbasaur>>), Spot("last", <<Ivysaur>>)>>,
     <<Spot("first", <<Bulbasaur>>), Spot("last", <<Ivysaur, Venusaur>>)>>,
     <<Spot("first", <<Bulbasaur, Bulbasaur>>), Spot("last", <<Ivysaur>>)>>,
     <<Spot("first", <<Bulbasaur>>), Spot("middle", <<Ivysaur>>),
       Spot("last", <<Venusaur>>)>>}

AbilityStores ==
    {<<>>, <<[ability |-> Overgrow, description |-> <<"p">>]>>}

\* The documents of a store have distinct numbers (the unique index of the
\* collection); their names may repeat.
LoadStores ==
    UNION {{[i \in 1..n |->
                Document(names[i], i,
                         <<Form(names[i], TwoDescriptions, abil)>>, lines[i])] :
              names \in [1..n -> Pokemon], lines \in [1..n -> Lineages],
              abil \in FormAbilityLists} : n \in 1..MaxEntities}

CrawlOver ==
    /\ catalog = <<>>
    /\ url = first_pokemon_url
    /\ fetched = <<>>
    /\ cpc = "done"
    /\ cerr = "none"

InitLoad ==
    /\ CrawlOver
    /\ pkmn_collection \in LoadStores
    /\ ability_collection \in AbilityStores
    /\ LoadIdle

SpecLoad == InitLoad /\ [][NextLoad]_vars

\* Stores of one pokemon whose forms have zero to MaxDescriptions
\* descriptions each.
DescriptionLists == SeqsUpTo({<<"x">>, <<"y">>}, MaxDescriptions)

FormLabels == <<Bulbasaur, <<"M">>, <<"G">>, <<"A">>>>

DescriptionStores ==
    UNION {{<<Document(Bulbasaur, 1,
                [i \in 1..n |-> Form(FormLabels[i], descs[i], <<Overgrow>>)],
                <<>>)>> :
              descs \in [1..n -> DescriptionLists]} : n \in 1..MaxForms}

InitDesc ==
    /\ CrawlOver
    /\ pkmn_collection \in DescriptionStores
    /\ ability_collection \in AbilityStores
    /\ LoadIdle

SpecDesc == InitDesc /\ [][NextLoad]_vars

(***************************************************************************)
(* insert_evolutions_table alone: the load stands at the call of line 161  *)
(* for the last document of the store, the calls before it done.           *)
(***************************************************************************)
PositionLists == SeqsUpTo(Pokemon, MaxNames)

\* A position of the taxonomy: absent, or present with a list of names.
Positions(s) == {<<>>} \cup {<<Spot(s, names)>> : names \in PositionLists}

\* Taxonomies in page order: any of first, middle and last, and possibly a
\* position of another name.
Taxonomies ==
    {f \o m \o l \o o :
        f \in Positions("first"), m \in Positions("middle"),
        l \in Positions("last"),
        o \in {<<>>, <<Spot("other", <<Venusaur>>)>>}}

\* A document loaded before, whose line names Bulbasaur.
VenusaurDocument ==
    Document(Venusaur, 1, <<Form(Venusaur, TwoDescriptions, <<>>)>>,
             <<Spot("first", <<Bulbasaur>>), Spot("last", <<Venusaur>>)>>)

EvolutionStores ==
    {prior \o <<Document(Bulbasaur, Len(prior) + 1,
                         <<Form(Bulbasaur, TwoDescriptions, <<>>)>>, t)>> :
        prior \in {<<>>, <<VenusaurDocument>>}, t \in Taxonomies}

DocumentsOf(store) == {store[i] : i \in 1..Len(store)}

FormsOf(pkmn) == {pkmn.formes[i] : i \in 1..Len(pkmn.formes)}

InitEvo ==
    /\ CrawlOver
    /\ pkmn_collection \in EvolutionStores
    /\ ability_collection = <<>>
    /\ lpc = "evolutions"
    /\ li = Len(pkmn_collection)
    /\ lerr = NoError
    /\ committed = FALSE
    /\ t_pokemon = {[name |-> d.name, number |-> d.number] :
                        d \in DocumentsOf(pkmn_collection)}
    /\ t_formes = UNION {{FormesRow(d, f) : f \in FormsOf(d)} :
                            d \in DocumentsOf(pkmn_collection)}
    /\ t_form_descriptions =
          UNION {UNION {{DescriptionRow(d, f, f.descriptions[k]) : k \in 1..2} :
                           f \in FormsOf(d)} :
                    d \in DocumentsOf(pkmn_collection)}
    /\ t_abilities = {}
    /\ t_form_abilities = {}
    /\ t_evolutions =
          IF Len(pkmn_collection) = 1 THEN {}
          ELSE Range(EvolutionValues(CombineEvos(pkmn_collection[1].evolutions)))

SpecEvo == InitEvo /\ [][insert_evolutions_table]_vars

(***************************************************************************)
(* The scraper on one page, whose "next" link leads back to it.            *)
(***************************************************************************)
RawLabels == {<<"M">>, <<"M", " ">>, <<"G">>}

FormesTags ==
    {NoFormes} \cup
    {[present |-> TRUE, labels |-> l] : l \in SeqsUpTo(RawLabels, MaxForms)}

RegionCounts == 0..(MaxForms + 1)

Ordinal == <<"1", "2", "3", "4", "5", "6", "7", "8", "9">>

\* A page with the given formes element and the given number of regions
\* for each of the four extractors; region i carries texts marked i.
RegionsPage(tag, images, descriptions, types, info) ==
    [title |-> <<"\n", "B", " ">>,
     number |-> <<"#", "0", "0", "1">>,
     formes |-> tag,
     images |-> [i \in 1..images |-> <<"img", Ordinal[i]>>],
     descriptions |-> [i \in 1..descriptions |->
                        << <<"x", Ordinal[i], "\n">>, <<" ", "y", Ordinal[i]>> >>],
     types |-> [i \in 1..types |-> << <<"g", Ordinal[i]>> >>],
     info |-> [i \in 1..info |->
                 [InfoRegion(<<Overgrow>>) EXCEPT !.height = <<"h", Ordinal[i]>>]],
     evolution |-> BulbasaurLine,
     details |-> <<[h3 |-> Overgrow, p |-> <<"p">>]>>,
     next |-> <<"us", "pokedex", "bulbasaur">>]

ScrapePages ==
    {RegionsPage(tag, n1, n2, n3, n4) :
        tag \in FormesTags, n1 \in RegionCounts, n2 \in RegionCounts,
        n3 \in RegionCounts, n4 \in RegionCounts}

InitScrape ==
    /\ catalog \in {[u \in {first_pokemon_url} |-> page] : page \in ScrapePages}
    /\ url = first_pokemon_url
    /\ fetched = <<>>
    /\ pkmn_collection = <<>>
    /\ ability_collection = <<>>
    /\ cpc = "loop"
    /\ cerr = "none"
    /\ LoadIdle

SpecScrape == InitScrape /\ [][NextCrawl]_vars

(***************************************************************************)
(* One page with one form and its gender cell, crawled and then loaded.    *)
(***************************************************************************)
MaxIcons == 2

\* The text of the gender cell: white space beside icons, or a label.
GenderTexts == {<<"\n", " ">>, <<"\n", "U", " ">>, <<" ">> \o Male}

GenderCells ==
    {[icons |-> i, gender_text |-> g] :
        i \in SeqsUpTo({MaleIcon, FemaleIcon}, MaxIcons), g \in GenderTexts}

GenderPage(cell, details) ==
    [OneFormPage(<<"B">>, <<"#", "1">>, <<>>, NoEvolution, details,
                 <<"us", "pokedex", "bulbasaur">>)
        EXCEPT !.info = <<[InfoRegion(<<>>) EXCEPT
                              !.icons = cell.icons,
                              !.gender_text = cell.gender_text]>>]

GenderPages ==
    {GenderPage(cell, details) :
        cell \in GenderCells,
        details \in {<<>>, <<[h3 |-> Overgrow, p |-> <<"p">>]>>}}

InitGender ==
    /\ catalog \in {[u \in {first_pokemon_url} |-> page] : page \in GenderPages}
    /\ url = first_pokemon_url
    /\ fetched = <<>>
    /\ pkmn_collection = <<>>
    /\ ability_collection = <<>>
    /\ cpc = "loop"
    /\ cerr = "none"
    /\ LoadIdle

SpecGender == InitGender /\ [][Next]_vars

(***************************************************************************)
(* Properties.                                                             *)
(***************************************************************************)
CurrentDocument == pkmn_collection[li]

CurrentEvos == CombineEvos(CurrentDocument.evolutions)

Edge(a, b) == [pokemon |-> a, evolves_to |-> b]

\* The edge set of a taxonomy, as the data model defines it.
LineageEdges(evos) ==
    IF "middle" \in DOMAIN evos
    THEN {Edge(f, m) : f \in Range(evos["first"]), m \in Range(evos["middle"])}
         \cup {Edge(m, l) : m \in Range(evos["middle"]), l \in Range(evos["last"])}
    ELSE IF "last" \in DOMAIN evos
    THEN {Edge(f, l) : f \in Range(evos["first"]), l \in Range(evos["last"])}
    ELSE {}

ValidShape(evos) ==
    DOMAIN evos \in {{"first"}, {"first", "last"}, {"first", "middle", "last"}}

\* C1: when insert_evolutions_table runs for an entity that no evolutions
\* row names and whose taxonomy has one of the three valid shapes, the
\* values it derives are, as a set, first x last without a middle, first x
\* middle together with middle x last with one, and nothing with first
\* alone; these rows and no others are added to the table (all of them
\* unless a repeated row is refused).
C1_EdgeSet ==
    [][(/\ lpc = "evolutions"
        /\ ~EvolutionLineKnown(t_evolutions, CurrentDocument.name)
        /\ ValidShape(CurrentEvos))
       => /\ Range(EvolutionValues(CurrentEvos)) = LineageEdges(CurrentEvos)
          /\ t_evolutions' \subseteq t_evolutions \cup LineageEdges(CurrentEvos)
          /\ lerr'.error \in {"none", "IntegrityError"}
          /\ lerr'.error = "none"
                => t_evolutions' = t_evolutions \cup LineageEdges(CurrentEvos)]_vars

\* A three-stage line with two names in the middle has been inserted: four
\* edges.
C1_Witness ==
    /\ lpc = "commit"
    /\ Len(pkmn_collection) = 1
    /\ ValidShape(CombineEvos(pkmn_collection[1].evolutions))
    /\ "middle" \in DOMAIN CombineEvos(pkmn_collection[1].evolutions)
    /\ Len(CombineEvos(pkmn_collection[1].evolutions)["middle"]) = 2
    /\ Cardinality(t_evolutions) = 4
    /\ t_evolutions = LineageEdges(CombineEvos(pkmn_collection[1].evolutions))

\* The taxonomies the contract of the normalizer calls malformed.
MalformedTaxonomy(evos) ==
    \/ \E k \in DOMAIN evos : k \notin {"first", "middle", "last"}
    \/ /\ "middle" \in DOMAIN evos
       /\ "first" \notin DOMAIN evos \/ "last" \notin DOMAIN evos

\* C5: for every entity the loader processes, a taxonomy with a key outside
\* {first, middle, last}, or with middle but without first or last, makes
\* the load fail at that entity and writes no evolutions row, whether or
\* not an evolutions row names the entity already.
C5_AlwaysFatal ==
    [][(lpc = "evolutions" /\ MalformedTaxonomy(CurrentEvos))
       => (lpc' = "failed" /\ t_evolutions' = t_evolutions)]_vars

\* The malformed taxonomies the code rejects: a key outside the three, a
\* middle without last, a middle with names in it without first.
RejectedTaxonomy(evos) ==
    \/ \E k \in DOMAIN evos : k \notin {"first", "middle", "last"}
    \/ "middle" \in DOMAIN evos /\ "last" \notin DOMAIN evos
    \/ /\ "middle" \in DOMAIN evos
       /\ evos["middle"] # <<>>
       /\ "first" \notin DOMAIN evos

\* What the code does guarantee in the matter of C5: for an entity that no
\* evolutions row names yet, a taxonomy with a key outside {first, middle,
\* last}, with middle but not last, or with a non-empty middle but not
\* first, makes the load fail at that entity and writes no evolutions row;
\* for an entity an evolutions row already names, the taxonomy is not
\* looked at: the load goes on and writes no evolutions row.
C5_FatalWhenNotCovered ==
    [][lpc = "evolutions"
       => IF EvolutionLineKnown(t_evolutions, CurrentDocument.name)
          THEN lpc' # "failed" /\ t_evolutions' = t_evolutions
          ELSE RejectedTaxonomy(CurrentEvos)
                  => /\ lpc' = "failed"
                     /\ lerr'.call = "evolutions"
                     /\ lerr'.error \in {"AssertionError", "KeyError"}
                     /\ t_evolutions' = t_evolutions]_vars

\* The load has failed on the assertion, for an entity no row names.
C5_Witness ==
    /\ lpc = "failed"
    /\ lerr = [call |-> "evolutions", error |-> "AssertionError"]
    /\ Len(pkmn_collection) = 1
    /\ t_evolutions = {}

\* The next url of a page of the catalog.
NextOf(u) == <<Host>> \o catalog[u].next

\* C9: the pages fetched are the chain of next links from the first url,
\* the crawl has not gone past a page whose next link is the first url,
\* and it is done exactly when the last page fetched and stored has that
\* link; then every page of the chain was fetched once and is stored as
\* one document, in order.
C9_CrawlIsTheCycle ==
    /\ fetched # <<>> => fetched[1] = first_pokemon_url
    /\ \A i \in 1..(Len(fetched) - 1) :
          /\ NextOf(fetched[i]) # first_pokemon_url
          /\ fetched[i + 1] = NextOf(fetched[i])
    /\ cpc = "loop" /\ fetched # <<>>
          => NextOf(fetched[Len(fetched)]) # first_pokemon_url
    /\ cpc = "done"
          => /\ fetched # <<>>
             /\ NextOf(fetched[Len(fetched)]) = first_pokemon_url
             /\ \A i, j \in 1..Len(fetched) : fetched[i] = fetched[j] => i = j
             /\ Len(pkmn_collection) = Len(fetched)
             /\ \A i \in 1..Len(fetched) :
                   /\ pkmn_collection[i].url = fetched[i]
                   /\ pkmn_collection[i].name =
                         Strip(catalog[fetched[i]].title, Blank)

\* The crawl has gone round all three pages and stopped.
C9_Witness ==
    /\ cpc = "done"
    /\ Len(fetched) = 3
    /\ Len(pkmn_collection) = 3

\* The ability elements of the pages stored so far, in crawl order.
Occurrences ==
    Flatten([i \in 1..Len(pkmn_collection) |->
                catalog[pkmn_collection[i].url].details])

FirstOccurrence(name) ==
    CHOOSE k \in 1..Len(Occurrences) :
        /\ Strip(Occurrences[k].h3, Blank) = name
        /\ \A j \in 1..(k - 1) : Strip(Occurrences[j].h3, Blank) # name

\* C3: the description the ability collection holds for a name is the
\* description of the name's first occurrence in crawl order.
C3_FirstDescriptionWins ==
    \A i \in 1..Len(ability_collection) :
        ability_collection[i].description =
            Strip(Occurrences[FirstOccurrence(ability_collection[i].ability)].p,
                  Blank)

\* C6: no pokemon, formes or form_abilities row is written while the
\* ability pass runs, and after a completed crawl every form_abilities row
\* names an ability that has a row in abilities.
C6_AbilitiesBeforeReferences ==
    /\ lpc \in {"idle", "abilities"}
          => t_pokemon = {} /\ t_formes = {} /\ t_form_abilities = {}
    /\ cpc = "done"
          => \A r \in t_form_abilities :
                \E a \in t_abilities : a.ability = r.ability

\* The page of the one-page catalog, and the number of forms it declares:
\* its labels, or one form when it has no formes element.
ThePage == catalog[first_pokemon_url]

DeclaredForms(page) ==
    IF page.formes.present THEN Len(page.formes.labels) ELSE 1

\* C7: when an extractor finds fewer or more regions than the page has
\* form labels, scraping fails and no Entity record is produced.
C7_MismatchIsFatal ==
    (\/ Len(ThePage.images) # DeclaredForms(ThePage)
     \/ Len(ThePage.descriptions) # DeclaredForms(ThePage)
     \/ Len(ThePage.types) # DeclaredForms(ThePage)
     \/ Len(ThePage.info) # DeclaredForms(ThePage))
    => /\ pkmn_collection = <<>>
       /\ cpc # "done"

\* C8: the Entity of a page scraped successfully has one Form record per
\* declared form, in the declared order, with pairwise distinct labels; a
\* page without formes element yields one Form labelled with the name.
C8_FormsAsDeclared ==
    pkmn_collection # <<>> =>
        LET entity == pkmn_collection[1] IN
        /\ Len(entity.formes) = DeclaredForms(ThePage)
        /\ ThePage.formes.present
              => \A i \in 1..Len(entity.formes) :
                    entity.formes[i].form =
                        Strip(ThePage.formes.labels[i], Blank)
        /\ ~ThePage.formes.present => entity.formes[1].form = entity.name
        /\ \A i, j \in 1..Len(entity.formes) :
              entity.formes[i].form = entity.formes[j].form => i = j

\* The names a taxonomy mentions.
LineageNames(evos_list) ==
    UNION {Range(evos_list[i].names) : i \in 1..Len(evos_list)}

\* Every document is a member of the line it carries, every member of a
\* line carries that line, and no name is loaded twice.
SharedLineages ==
    \A i, j \in 1..Len(pkmn_collection) :
        LET d == pkmn_collection[i]
            e == pkmn_collection[j]
        IN  /\ d.evolutions # <<>> => d.name \in LineageNames(d.evolutions)
            /\ e.name \in LineageNames(d.evolutions)
                  => e.evolutions = d.evolutions
            /\ d.name = e.name => i = j

\* C2: for such a store, no insert into evolutions is refused by the
\* primary key, and after the load every edge of every loaded line is in
\* the table.
C2_EveryEdgeOnce ==
    SharedLineages =>
        /\ lerr # [call |-> "evolutions", error |-> "IntegrityError"]
        /\ lpc = "done"
              => \A i \in 1..Len(pkmn_collection) :
                    LineageEdges(CombineEvos(pkmn_collection[i].evolutions))
                        \subseteq t_evolutions

\* C10: an evolutions row is stored only when its predecessor and its
\* successor have a pokemon row.
C10_EvolutionsReferencePokemon ==
    \A r \in t_evolutions :
        /\ \E p \in t_pokemon : p.name = r.pokemon
        /\ \E p \in t_pokemon : p.name = r.evolves_to

\* The form_descriptions rows of one form.
DescriptionsStored(pkmn, form) ==
    {r.description : r \in {x \in t_form_descriptions :
                               x.pokemon = pkmn.name /\ x.form = form.form}}

\* C4: when every form has one or two descriptions,
\* insert_form_descriptions_table raises nothing and leaves one row per
\* distinct description of each form.
C4_OneRowPerDescription ==
    LET pkmn == pkmn_collection[1] IN
    (\A f \in FormsOf(pkmn) : Len(f.descriptions) \in {1, 2})
    => /\ lerr.call # "form_descriptions"
       /\ lpc \in {"form_abilities", "evolutions", "commit", "done"}
             => \A f \in FormsOf(pkmn) :
                   DescriptionsStored(pkmn, f) = Range(f.descriptions)

\* The pages stored by the crawl whose ability elements name the ability.
PagesNaming(name) ==
    {i \in 1..Len(pkmn_collection) :
        \E k \in 1..Len(catalog[pkmn_collection[i].url].details) :
            Strip(catalog[pkmn_collection[i].url].details[k].h3, Blank) = name}

\* The ability names the crawl saw on two or more entities.
SharedAbilities ==
    {ability_collection[i].ability : i \in 1..Len(ability_collection)}
        \cap {name \in {ability_collection[i].ability :
                            i \in 1..Len(ability_collection)} :
                 Cardinality(PagesNaming(name)) >= 2}

\* C11: once the ability pass of a load has ended, the abilities table holds
\* exactly one row for every ability name the crawl saw on two or more
\* entities, and the ability pass never fails on the primary key of
\* abilities.
C11_OneRowPerSharedAbility ==
    /\ lpc \notin {"idle", "abilities"}
          => \A name \in SharedAbilities :
                Cardinality({r \in t_abilities : r.ability = name}) = 1
    /\ ~(lerr.call = "abilities" /\ lerr.error = "IntegrityError")

\* The gender cell of the page the document was scraped from.
GenderCell(pkmn) == catalog[pkmn.url].info[1]

\* C12: the gender field of every form is a subset of {Male, Female}: it
\* is the genders of the icons when the cell has icons, and empty when the
\* cell is a plain text label; the male and female columns of the form's
\* row are 1 exactly when the member is in the field.
C12_GenderIsSubset ==
    /\ \A i \in 1..Len(pkmn_collection) :
          \A k \in 1..Len(pkmn_collection[i].formes) :
             LET gender == pkmn_collection[i].formes[k].gender
                 cell == GenderCell(pkmn_collection[i])
             IN  /\ Range(gender) \subseteq {Male, Female}
                 /\ cell.icons # <<>> =>
                       gender = [j \in 1..Len(cell.icons) |->
                                   IconGender(cell.icons[j])]
                 /\ cell.icons = <<>> => gender = <<>>
    /\ \A r \in t_formes :
          \A i \in 1..Len(pkmn_collection) :
             \A k \in 1..Len(pkmn_collection[i].formes) :
                (/\ pkmn_collection[i].name = r.pokemon
                 /\ pkmn_collection[i].formes[k].form = r.form)
                   => LET gender == pkmn_collection[i].formes[k].gender
                      IN  /\ r.male = 1 <=> Male \in Range(gender)
                          /\ r.female = 1 <=> Female \in Range(gender)

\* The urls fetched before the one fetched last.
FetchedBefore == {fetched[i] : i \in 1..(Len(fetched) - 1)}

\* C13: when every fetch returns the crawl always ends; a second visit to
\* a page fails with the duplicate-key error and stores nothing, so that no
\* page is ever stored twice.
C13_CrawlAlwaysEnds ==
    /\ <>(cpc # "loop")
    /\ [](\A i, j \in 1..Len(pkmn_collection) :
             pkmn_collection[i].url = pkmn_collection[j].url => i = j)
    /\ [][(url \in Range(fetched) /\ fetched' # fetched)
            => /\ cpc' = "failed"
               /\ cerr' = "DuplicateKeyError"
               /\ pkmn_collection' = pkmn_collection]_vars

\* The crawl has come a second time to a page, on a chain of next links
\* that never leads back to the first url, and has failed there.
C13_Witness ==
    /\ cpc = "failed"
    /\ cerr = "DuplicateKeyError"
    /\ Len(fetched) >= 3
    /\ fetched[Len(fetched)] \in FetchedBefore
    /\ \A u \in Range(fetched) : NextOf(u) # first_pokemon_url

====
